---- MODULE Spec2Model ----
(***************************************************************************)
(* Model of CJavaPrefork (src/src/preforkj.py): a pool of pre-forked JVM   *)
(* worker processes, grouped by name, each with a private control FIFO,    *)
(* and a registry of them persisted as JSON in a status file.              *)
(*                                                                         *)
(* Modelled platform: Linux (_mkfifo_unix / _unlinkfifo_unix), with the    *)
(* working directory being the current directory, as in the module's own   *)
(* usage example (CJavaPrefork(".")), so that "control.<uid>" names the    *)
(* same file for mkfifo, unlink and open.                                  *)
(*                                                                         *)
(* Strings are sequences of string pieces, so that formatting is           *)
(* concatenation (\o).  The status file is a sequence of JSON tokens, each *)
(* token itself a sequence of pieces; json.dump and json.load are the      *)
(* operators Dump and Load.  sha256 is a table of the real digests.        *)
(* Process ids are handed out increasing and are not reused within a run.  *)
(* The variable file is the content of the status file as the controller's *)
(* file object holds it; it is what the next controller reads, the writes  *)
(* of one controller being flushed when it ends.  Each operation of the    *)
(* single-threaded controller is one step; a worker may end between any    *)
(* two operations.                                                         *)
(*                                                                         *)
(* Specifications:                                                         *)
(*   Spec      the controller on Linux, groups "a" and "b"                 *)
(*   SpecStart Spec, started over whatever the status file holds           *)
(*   SpecCp    Spec with explicit classpath arguments, one group           *)
(*   SpecIO    Spec with an exec_ whose channel write raises               *)
(*   SpecTwo   two controllers on one working directory, one group         *)
(*   SpecWin   the controller on Windows (named pipes), one group          *)
(*   SpecFrame the message of one exec_ call, byte by byte, both platforms *)
(***************************************************************************)
EXTENDS Integers, Sequences, FiniteSets, TLC

(* ------------------------------ bounds --------------------------------- *)

\* Number of processes the model lets the controller fork in one run.
MaxPid == 3

\* Largest n_instances passed to prefork_jvm.
MaxInstances == 2

\* Group names used as inputs.
Groups == {"a", "b"}

\* classpath arguments used as inputs; "" stands for None / empty (falsy):
\* the group's stored classpath, or the drip jar alone, is used.
ClasspathArgs == {""}

(* --------------------------- program constants ------------------------- *)

STATUS_IDLE == 0

STATUS_COMMAND_SENT == 1

DRIP_MAIN == "org.flatland.drip.Main"

DEFAULT_OPTIONS == <<"-Djava.awt.headless=true", " ", "-Dapplication.name=CJavaPrefork">>

CLASSPATH_SEPARATOR == ":"

\* self._drip_jar_path: absolute path of working_dir / DRIP_JAR
DripJarPath == "/wd/drip.jar"

\* str(self._working_dir.absolute())
WorkingDirAbs == "/wd"

\* self._java
JavaPath == "java"

(* ------------------------------ formatting ----------------------------- *)

Digit == <<"0", "1", "2", "3", "4", "5", "6", "7", "8", "9">>

RECURSIVE FormatInt(_)
\* "{}".format(n) / json's rendering of a non-negative int: decimal digits
FormatInt(n) ==
    IF n < 10 THEN <<Digit[n + 1]>>
    ELSE FormatInt(n \div 10) \o <<Digit[(n % 10) + 1]>>

IsDigit(c) == \E d \in 0..9 : Digit[d + 1] = c

DigitValue(c) == CHOOSE d \in 0..9 : Digit[d + 1] = c

RECURSIVE ParseInt(_)
\* json's reading of a run of decimal digits
ParseInt(ds) ==
    IF Len(ds) = 1 THEN DigitValue(ds[1])
    ELSE 10 * ParseInt(SubSeq(ds, 1, Len(ds) - 1)) + DigitValue(ds[Len(ds)])

\* hashlib.sha256(group_name.encode('utf8')).hexdigest()
Sha256Hex(g) ==
    CASE g = "a" -> "ca978112ca1bbdcafac231b39a23dc4da786eff8147c4e72b9807785afee48bb"
      [] g = "b" -> "3e23e8160039594a33894f6564e1b1348bbd7a0088d42c4acb73eeaed59c009d"

\* "{}.{}".format(group_name_hash.hexdigest(), process_position)
UniqueId(g, position) == <<Sha256Hex(g), ".">> \o FormatInt(position)

\* "control.{}".format(unique_id)
MkFifoName(unique_id) == <<"control.">> \o unique_id

\* " ".join(commandline), with no extra *args
CommandLine(classpath, unique_id) ==
    <<JavaPath, " ">> \o DEFAULT_OPTIONS \o <<" ", "-classpath", " ">> \o classpath
        \o <<" ", DRIP_MAIN, " ">> \o unique_id \o <<" ", WorkingDirAbs>>

(* ------------------------------ the state ------------------------------ *)

VARIABLES
    status,     \* self._status: sequence (insertion order) of [group, processes]
    groups,     \* self._groups: function group name -> classpath
    file,       \* bytes of preforkj_status.json, as a sequence of tokens
    fifos,      \* control FIFOs / files present in the working directory
    alive,      \* the liveness oracle psutil.pid_exists: set of existing pids
    nextPid,    \* the pid the next Popen gets
    ctl,        \* "ready", "blocked" inside an open or connect that does not
                \* return, or "down" before the controller is constructed
    everSent,   \* history: pids of the slots a job was ever dispatched to
    last,       \* history: the last operation, its arguments and its result
    other,      \* a second controller on the same directory, while it is not running
    job,        \* the arguments of an exec_ call whose message is followed
    wire        \* the units handed to the channel for that exec_ call

vars == <<status, groups, file, fifos, alive, nextPid, ctl, everSent, last,
          other, job, wire>>

\* what the operations of one controller on its own leave alone
aside == <<other, job, wire>>

(* --------------------------- registry helpers -------------------------- *)

\* group in self._status
HasGroup(st, g) == \E i \in DOMAIN st : st[i].group = g

GroupIndex(st, g) == CHOOSE i \in DOMAIN st : st[i].group = g

\* self._status[g] (only used when the key exists), else the empty list
Processes(st, g) == IF HasGroup(st, g) THEN st[GroupIndex(st, g)].processes ELSE <<>>

\* self._status.setdefault(group_name, [])
SetDefault(st, g) ==
    IF HasGroup(st, g) THEN st ELSE Append(st, [group |-> g, processes |-> <<>>])

SetProcesses(st, g, ps) == [st EXCEPT ![GroupIndex(st, g)].processes = ps]

\* all slots of the registry, as a set
AllSlots(st) ==
    UNION {{st[i].processes[j] : j \in DOMAIN st[i].processes} : i \in DOMAIN st}

IdleCount(ps) == Cardinality({j \in DOMAIN ps : ps[j].status = STATUS_IDLE})

(* ------------------- the status file: json.dump / json.load ------------ *)

LBrace == <<"{">>

RBrace == <<"}">>

LBracket == <<"[">>

RBracket == <<"]">>

\* json.dump's default item separator
Comma == <<", ">>

\* json.dump's default key separator
Colon == <<": ">>

Quote == "\""

\* a JSON string literal
Str(parts) == <<Quote>> \o parts \o <<Quote>>

\* a JSON number
Num(n) == FormatInt(n)

\* the keys of a slot record, in the order _run_jvm builds the dict
DumpSlot(p) ==
    <<LBrace,
      Str(<<"pid">>), Colon, Num(p.pid), Comma,
      Str(<<"status">>), Colon, Num(p.status), Comma,
      Str(<<"unique_id">>), Colon, Str(p.unique_id), Comma,
      Str(<<"control">>), Colon, Str(p.control), Comma,
      Str(<<"commandline">>), Colon, Str(p.commandline), Comma,
      Str(<<"classpath">>), Colon, Str(p.classpath),
      RBrace>>

RECURSIVE DumpSlots(_)
DumpSlots(ps) ==
    IF ps = <<>> THEN <<>>
    ELSE IF Len(ps) = 1 THEN DumpSlot(ps[1])
    ELSE DumpSlot(ps[1]) \o <<Comma>> \o DumpSlots(Tail(ps))

DumpGroup(e) ==
    <<Str(<<e.group>>), Colon, LBracket>> \o DumpSlots(e.processes) \o <<RBracket>>

RECURSIVE DumpGroups(_)
DumpGroups(st) ==
    IF st = <<>> THEN <<>>
    ELSE IF Len(st) = 1 THEN DumpGroup(st[1])
    ELSE DumpGroup(st[1]) \o <<Comma>> \o DumpGroups(Tail(st))

\* json.dump(self._status, fd): the serialized registry
Dump(st) == <<LBrace>> \o DumpGroups(st) \o <<RBrace>>

\* fd.seek(0, 0) followed by a write of `new`: the bytes from offset 0 are
\* replaced, and whatever the file held beyond len(new) stays (no truncate)
Overwrite(f, new) == new \o SubSeq(f, Len(new) + 1, Len(f))

\* self._status_fd.seek(0, 0); json.dump(self._status, self._status_fd)
Save(f, st) == Overwrite(f, Dump(st))

EndOfFile == <<"EOF">>

Tok(f, i) == IF i \in DOMAIN f THEN f[i] ELSE EndOfFile

IsStr(t) == Len(t) >= 2 /\ t[1] = Quote /\ t[Len(t)] = Quote

StrValue(t) == SubSeq(t, 2, Len(t) - 1)

IsNum(t) == Len(t) >= 1 /\ \A k \in DOMAIN t : IsDigit(t[k])

ParseFail == [ok |-> FALSE, next |-> 0]

\* one `"key": value` member of a slot object at token i; isNum tells
\* whether the value is a number
MemberOk(f, i, key, isNum) ==
    /\ Tok(f, i) = Str(<<key>>)
    /\ Tok(f, i + 1) = Colon
    /\ IF isNum THEN IsNum(Tok(f, i + 2)) ELSE IsStr(Tok(f, i + 2))

\* faulty variant: a loaded slot starts Idle whatever status the file records
ParseSlotResetStatus(f, i) ==
    IF /\ Tok(f, i) = LBrace
       /\ MemberOk(f, i + 1, "pid", TRUE) /\ Tok(f, i + 4) = Comma
       /\ MemberOk(f, i + 5, "status", TRUE) /\ Tok(f, i + 8) = Comma
       /\ MemberOk(f, i + 9, "unique_id", FALSE) /\ Tok(f, i + 12) = Comma
       /\ MemberOk(f, i + 13, "control", FALSE) /\ Tok(f, i + 16) = Comma
       /\ MemberOk(f, i + 17, "commandline", FALSE) /\ Tok(f, i + 20) = Comma
       /\ MemberOk(f, i + 21, "classpath", FALSE)
       /\ Tok(f, i + 24) = RBrace
    THEN [ok |-> TRUE, next |-> i + 25,
          val |-> [pid |-> ParseInt(f[i + 3]),
                   status |-> STATUS_IDLE,
                   unique_id |-> StrValue(f[i + 11]),
                   control |-> StrValue(f[i + 15]),
                   commandline |-> StrValue(f[i + 19]),
                   classpath |-> StrValue(f[i + 23])]]
    ELSE ParseFail

\* a slot object starting at token i
ParseSlot(f, i) ==
    IF /\ Tok(f, i) = LBrace
       /\ MemberOk(f, i + 1, "pid", TRUE) /\ Tok(f, i + 4) = Comma
       /\ MemberOk(f, i + 5, "status", TRUE) /\ Tok(f, i + 8) = Comma
       /\ MemberOk(f, i + 9, "unique_id", FALSE) /\ Tok(f, i + 12) = Comma
       /\ MemberOk(f, i + 13, "control", FALSE) /\ Tok(f, i + 16) = Comma
       /\ MemberOk(f, i + 17, "commandline", FALSE) /\ Tok(f, i + 20) = Comma
       /\ MemberOk(f, i + 21, "classpath", FALSE)
       /\ Tok(f, i + 24) = RBrace
    THEN [ok |-> TRUE, next |-> i + 25,
          val |-> [pid |-> ParseInt(f[i + 3]),
                   status |-> ParseInt(f[i + 7]),
                   unique_id |-> StrValue(f[i + 11]),
                   control |-> StrValue(f[i + 15]),
                   commandline |-> StrValue(f[i + 19]),
                   classpath |-> StrValue(f[i + 23])]]
    ELSE ParseFail

RECURSIVE ParseSlots(_, _, _)
\* the elements of a non-empty array, the first one starting at token i
ParseSlots(f, i, acc) ==
    LET r == ParseSlot(f, i) IN
    IF ~r.ok THEN ParseFail
    ELSE IF Tok(f, r.next) = Comma THEN ParseSlots(f, r.next + 1, Append(acc, r.val))
    ELSE IF Tok(f, r.next) = RBracket
         THEN [ok |-> TRUE, next |-> r.next + 1, val |-> Append(acc, r.val)]
    ELSE ParseFail

\* an array of slot objects starting at token i
ParseList(f, i) ==
    IF Tok(f, i) # LBracket THEN ParseFail
    ELSE IF Tok(f, i + 1) = RBracket THEN [ok |-> TRUE, next |-> i + 2, val |-> <<>>]
    ELSE ParseSlots(f, i + 1, <<>>)

RECURSIVE ParseGroups(_, _, _)
\* the members of a non-empty top-level object, the first one at token i
ParseGroups(f, i, acc) ==
    IF ~(IsStr(Tok(f, i)) /\ Len(Tok(f, i)) = 3 /\ Tok(f, i + 1) = Colon) THEN ParseFail
    ELSE LET r == ParseList(f, i + 2)
             e == [group |-> f[i][2], processes |-> r.val]
         IN  IF ~r.ok THEN ParseFail
             ELSE IF Tok(f, r.next) = Comma THEN ParseGroups(f, r.next + 1, Append(acc, e))
             ELSE IF Tok(f, r.next) = RBrace
                  THEN [ok |-> TRUE, next |-> r.next + 1, val |-> Append(acc, e)]
             ELSE ParseFail

ParseObject(f, i) ==
    IF Tok(f, i) # LBrace THEN ParseFail
    ELSE IF Tok(f, i + 1) = RBrace THEN [ok |-> TRUE, next |-> i + 2, val |-> <<>>]
    ELSE ParseGroups(f, i + 1, <<>>)

\* json.load(fd): one JSON value and then the end of the input; anything
\* else (an empty file, data after the value) is a JSONDecodeError
Load(f) ==
    LET r == ParseObject(f, 1) IN
    IF r.ok /\ r.next = Len(f) + 1 THEN [ok |-> TRUE, val |-> r.val]
    ELSE [ok |-> FALSE, val |-> <<>>]

(* ------------------------- the control channels ------------------------ *)

\* fifos is a set of records [name, kind, owner, writes]: the directory
\* entries control.<uid>.  kind is "fifo" (made by os.mkfifo) or "file" (a
\* regular file made by open(name, "wb")); owner is the pid of the worker
\* the FIFO was made for (0 for a regular file); writes lists, per completed
\* write, the pid of the slot the dispatch selected.

Exists(fs, name) == \E c \in fs : c.name = name

Channel(fs, name) == CHOOSE c \in fs : c.name = name

\* _unlinkfifo_unix: unlink, a missing file is not an error
UnlinkFifo(fs, unique_id) == {c \in fs : c.name # MkFifoName(unique_id)}

\* _mkfifo_unix: os.mkfifo of control.<uid>, for the worker about to be forked
MkFifo(fs, unique_id, pid) ==
    fs \cup {[name |-> MkFifoName(unique_id), kind |-> "fifo", owner |-> pid, writes |-> <<>>]}

\* open(control, "wb") of a FIFO returns once a reader has it open: the
\* worker it was made for, if that process exists.  A missing path and a
\* regular file open at once.
OpenCompletes(fs, name, live) ==
    IF ~Exists(fs, name) THEN TRUE
    ELSE IF Channel(fs, name).kind = "file" THEN TRUE
    ELSE Channel(fs, name).owner \in live

\* _writefifo on Linux, once open() has returned: the frames go to whatever
\* the path names; a missing path is created as a regular file, and a
\* regular file is truncated by "wb"
WriteFifo(fs, process_info) ==
    LET name == process_info.control IN
    IF Exists(fs, name) /\ Channel(fs, name).kind = "fifo"
    THEN LET c == Channel(fs, name) IN
         (fs \ {c}) \cup {[c EXCEPT !.writes = Append(@, process_info.pid)]}
    ELSE {c \in fs : c.name # name} \cup
         {[name |-> name, kind |-> "file", owner |-> 0, writes |-> <<process_info.pid>>]}

(* ------------------------------ _run_jvm ------------------------------- *)

\* faulty variant: the new slot replaces the group's list
RunJvmForgetsOthers(s, g, classpath, exits) ==
    LET st1 == SetDefault(s.status, g)
        unique_id == UniqueId(g, Len(Processes(st1, g)))
        pid == s.nextPid
        fs1 == MkFifo(UnlinkFifo(s.fifos, unique_id), unique_id, pid)
        process_info == [pid |-> pid,
                         status |-> STATUS_IDLE,
                         unique_id |-> unique_id,
                         control |-> MkFifoName(unique_id),
                         commandline |-> CommandLine(classpath, unique_id),
                         classpath |-> classpath]
    IN  IF exits
        THEN [s EXCEPT !.status = st1, !.fifos = fs1, !.nextPid = pid + 1, !.raised = TRUE]
        ELSE [s EXCEPT !.status = SetProcesses(st1, g, <<process_info>>),
                       !.fifos = fs1, !.alive = @ \cup {pid}, !.nextPid = pid + 1]

\* faulty variant: the new slot is put at the head of the group's list
RunJvmPrepend(s, g, classpath, exits) ==
    LET st1 == SetDefault(s.status, g)
        processes == Processes(st1, g)
        process_position == Len(processes)
        unique_id == UniqueId(g, process_position)
        pid == s.nextPid
        fs1 == MkFifo(UnlinkFifo(s.fifos, unique_id), unique_id, pid)
        process_info == [pid |-> pid,
                         status |-> STATUS_IDLE,
                         unique_id |-> unique_id,
                         control |-> MkFifoName(unique_id),
                         commandline |-> CommandLine(classpath, unique_id),
                         classpath |-> classpath]
    IN  IF exits
        THEN [s EXCEPT !.status = st1, !.fifos = fs1, !.nextPid = pid + 1, !.raised = TRUE]
        ELSE [s EXCEPT !.status = SetProcesses(st1, g, <<process_info>> \o processes),
                       !.fifos = fs1, !.alive = @ \cup {pid}, !.nextPid = pid + 1]

\* faulty variant: the slot is appended before the process is polled, so a
\* process that has exited is registered too
RunJvmAppendsUnpolled(s, g, classpath, exits) ==
    LET st1 == SetDefault(s.status, g)
        processes == Processes(st1, g)
        process_position == Len(processes)
        unique_id == UniqueId(g, process_position)
        pid == s.nextPid
        fs1 == MkFifo(UnlinkFifo(s.fifos, unique_id), unique_id, pid)
        process_info == [pid |-> pid,
                         status |-> STATUS_IDLE,
                         unique_id |-> unique_id,
                         control |-> MkFifoName(unique_id),
                         commandline |-> CommandLine(classpath, unique_id),
                         classpath |-> classpath]
        st2 == SetProcesses(st1, g, Append(processes, process_info))
    IN  IF exits
        THEN [s EXCEPT !.status = st2, !.fifos = fs1, !.nextPid = pid + 1, !.raised = TRUE]
        ELSE [s EXCEPT !.status = st2,
                       !.fifos = fs1, !.alive = @ \cup {pid}, !.nextPid = pid + 1]

\* One call of _run_jvm on the controller state s = [status, fifos, alive,
\* nextPid, raised]; exits tells whether the forked process has already
\* exited when it is polled (ChildProcessError).
RunJvm(s, g, classpath, exits) ==
    LET st1 == SetDefault(s.status, g)
        processes == Processes(st1, g)
        process_position == Len(processes)
        unique_id == UniqueId(g, process_position)
        pid == s.nextPid
        fs1 == MkFifo(UnlinkFifo(s.fifos, unique_id), unique_id, pid)
        process_info == [pid |-> pid,
                         status |-> STATUS_IDLE,
                         unique_id |-> unique_id,
                         control |-> MkFifoName(unique_id),
                         commandline |-> CommandLine(classpath, unique_id),
                         classpath |-> classpath]
    IN  IF exits
        THEN [s EXCEPT !.status = st1, !.fifos = fs1, !.nextPid = pid + 1, !.raised = TRUE]
        ELSE [s EXCEPT !.status = SetProcesses(st1, g, Append(processes, process_info)),
                       !.fifos = fs1, !.alive = @ \cup {pid}, !.nextPid = pid + 1]

RECURSIVE SpawnLoop(_, _, _, _, _)
\* while idle_count > 0: self._run_jvm(...); idle_count -= 1
\* failAt is the number of the spawn whose process exits at once (0: none)
SpawnLoop(s, g, classpath, idle_count, failAt) ==
    IF idle_count <= 0 \/ s.raised THEN s
    ELSE SpawnLoop(RunJvm(s, g, classpath, failAt = 1), g, classpath,
                   idle_count - 1, IF failAt > 0 THEN failAt - 1 ELSE 0)

\* prefork_jvm lines 235-243: the classpath the new JVMs get
ExtendedClasspath(gs, g, classpath) ==
    IF classpath # "" THEN <<classpath, CLASSPATH_SEPARATOR, DripJarPath>>
    ELSE IF g \in DOMAIN gs THEN gs[g]
    ELSE <<DripJarPath>>

\* faulty variant: every slot of the group counts, whatever its status
IdleDeficitCountsAll(st, g, n_instances) == n_instances - Len(Processes(st, g))

\* prefork_jvm lines 233, 246-253: n_instances minus the Idle slots of the group
IdleDeficit(st, g, n_instances) == n_instances - IdleCount(Processes(st, g))

(* ---------------------------- update_status ---------------------------- *)

RECURSIVE RemoveFirst(_, _)
\* list.remove(item): drops the first element equal to item
RemoveFirst(ps, item) ==
    IF ps = <<>> THEN <<>>
    ELSE IF ps[1] = item THEN Tail(ps)
    ELSE <<ps[1]>> \o RemoveFirst(Tail(ps), item)

\* faulty variant: only the first slot to reap is removed (as when a list is
\* changed while it is iterated)
RemoveEachFirstOnly(ps, to_reap) ==
    IF to_reap = <<>> THEN ps ELSE RemoveFirst(ps, to_reap[1])

RECURSIVE RemoveEach(_, _)
\* [processes.remove(item) for item in to_reap]
RemoveEach(ps, to_reap) ==
    IF to_reap = <<>> THEN ps
    ELSE RemoveEach(RemoveFirst(ps, to_reap[1]), Tail(to_reap))

\* faulty variant: a slot whose command was sent is reaped as well
ToReapAlsoSent(ps, live) ==
    SelectSeq(ps, LAMBDA p : p.pid \notin live \/ p.status = STATUS_COMMAND_SENT)

\* the slots of one group whose pid does not exist, in list order
ToReap(ps, live) == SelectSeq(ps, LAMBDA p : p.pid \notin live)

RECURSIVE UnlinkEach(_, _)
\* self._unlinkfifo(unique_id) for every slot to reap
UnlinkEach(fs, to_reap) ==
    IF to_reap = <<>> THEN fs
    ELSE UnlinkEach(UnlinkFifo(fs, to_reap[1].unique_id), Tail(to_reap))

\* update_status lines 359-376 on the registry: every group loses its dead slots
ReapStatus(st, live) ==
    [i \in DOMAIN st |->
        [st[i] EXCEPT !.processes = RemoveEach(@, ToReap(@, live))]]

RECURSIVE ReapFifos(_, _, _)
\* update_status lines 364-367 on the directory
ReapFifos(fs, st, live) ==
    IF st = <<>> THEN fs
    ELSE ReapFifos(UnlinkEach(fs, ToReap(st[1].processes, live)), Tail(st), live)

(* -------------------------------- exec_ -------------------------------- *)

HasIdle(ps) == \E j \in DOMAIN ps : ps[j].status = STATUS_IDLE

\* faulty variant: the last Idle slot instead of the first
LastIdle(ps) ==
    CHOOSE j \in DOMAIN ps :
        /\ ps[j].status = STATUS_IDLE
        /\ \A k \in (j + 1)..Len(ps) : ps[k].status # STATUS_IDLE

\* the for loop of exec_: the first slot, in list order, whose status is Idle
FirstIdle(ps) ==
    CHOOSE j \in DOMAIN ps :
        /\ ps[j].status = STATUS_IDLE
        /\ \A k \in 1..(j - 1) : ps[k].status # STATUS_IDLE

(* ------------------------------- __init__ ------------------------------ *)

\* __init__ lines 112-116: the classpath of each non-empty group's first slot
RebuildGroups(st) ==
    LET named == {st[i].group : i \in {k \in DOMAIN st : st[k].processes # <<>>}}
    IN  [g \in named |-> Processes(st, g)[1].classpath]

(* ------------------------------ the actions ---------------------------- *)

\* n is n_instances for an ensure; for a reconcile it is 1 when the operation
\* right before it was a reconcile too (no step in between), else 0
Record(op, g, n, result, pid) ==
    [op |-> op, group |-> g, n |-> n, result |-> result, pid |-> pid]

\* no second controller has been started
NoController == [started |-> FALSE]

\* no exec_ call is followed
NoJob == [platform |-> "none"]

\* the state after CJavaPrefork(".") in an empty working directory: no status
\* file, so open "w+" and {}; update_status writes "{}"
Init ==
    /\ status = <<>>
    /\ groups = <<>>
    /\ file = Save(<<>>, <<>>)
    /\ fifos = {}
    /\ alive = {}
    /\ nextPid = 1
    /\ ctl = "ready"
    /\ everSent = {}
    /\ last = Record("init", "", 0, "ok", 0)
    /\ other = NoController
    /\ job = NoJob
    /\ wire = <<>>

\* prefork_jvm(group_name, classpath, n_instances)
Ensure(g, classpath, n_instances, failAt) ==
    LET extended_classpath == ExtendedClasspath(groups, g, classpath)
        idle_count == IdleDeficit(status, g, n_instances)
        attempts == IF failAt = 0 THEN (IF idle_count > 0 THEN idle_count ELSE 0) ELSE failAt
        s0 == [status |-> status, fifos |-> fifos, alive |-> alive,
               nextPid |-> nextPid, raised |-> FALSE]
        s1 == SpawnLoop(s0, g, extended_classpath, idle_count, failAt)
    IN  /\ ctl = "ready"
        /\ failAt <= idle_count
        /\ nextPid + attempts - 1 <= MaxPid
        /\ groups' = (g :> extended_classpath) @@ groups
        /\ status' = s1.status
        /\ fifos' = s1.fifos
        /\ alive' = s1.alive
        /\ nextPid' = s1.nextPid
        /\ file' = IF s1.raised THEN file ELSE Save(file, s1.status)
        /\ last' = Record("ensure", g, n_instances,
                          IF s1.raised THEN "ChildProcessError" ELSE "ok", 0)
        /\ UNCHANGED <<ctl, everSent>>
        /\ UNCHANGED aside

\* exec_(group, ...) when the group has no entry: ProcessLookupError
DispatchNoGroup(g) ==
    /\ ctl = "ready"
    /\ ~HasGroup(status, g)
    /\ last' = Record("dispatch", g, 0, "NoGroup", 0)
    /\ UNCHANGED <<status, groups, file, fifos, alive, nextPid, ctl, everSent>>
    /\ UNCHANGED aside

\* exec_(group, ...) when no slot of the group is Idle: ProcessLookupError
DispatchNoIdle(g) ==
    /\ ctl = "ready"
    /\ HasGroup(status, g)
    /\ ~HasIdle(Processes(status, g))
    /\ last' = Record("dispatch", g, 0, "NoIdle", 0)
    /\ UNCHANGED <<status, groups, file, fifos, alive, nextPid, ctl, everSent>>
    /\ UNCHANGED aside

\* exec_(group, ...) with an Idle slot whose channel can be opened
Dispatch(g) ==
    /\ ctl = "ready"
    /\ HasGroup(status, g)
    /\ HasIdle(Processes(status, g))
    /\ LET processes == Processes(status, g)
           j == FirstIdle(processes)
           process_info == processes[j]
           st1 == SetProcesses(status, g,
                      [processes EXCEPT ![j].status = STATUS_COMMAND_SENT])
       IN  /\ OpenCompletes(fifos, process_info.control, alive)
           /\ fifos' = WriteFifo(fifos, process_info)
           /\ status' = st1
           /\ file' = Save(file, st1)
           /\ everSent' = everSent \cup {process_info.pid}
           /\ last' = Record("dispatch", g, 0, "ok", process_info.pid)
    /\ UNCHANGED <<groups, alive, nextPid, ctl>>
    /\ UNCHANGED aside

\* exec_(group, ...) with an Idle slot whose FIFO has no reader: open()
\* never returns
DispatchBlocks(g) ==
    /\ ctl = "ready"
    /\ HasGroup(status, g)
    /\ HasIdle(Processes(status, g))
    /\ LET processes == Processes(status, g)
           process_info == processes[FirstIdle(processes)]
       IN  ~OpenCompletes(fifos, process_info.control, alive)
    /\ ctl' = "blocked"
    /\ last' = Record("dispatch", g, 0, "blocked", 0)
    /\ UNCHANGED <<status, groups, file, fifos, alive, nextPid, everSent>>
    /\ UNCHANGED aside

\* update_status()
Reconcile ==
    /\ ctl = "ready"
    /\ status' = ReapStatus(status, alive)
    /\ fifos' = ReapFifos(fifos, status, alive)
    /\ file' = Save(file, status')
    /\ last' = Record("reconcile", "", IF last.op = "reconcile" THEN 1 ELSE 0, "ok", 0)
    /\ UNCHANGED <<groups, alive, nextPid, ctl, everSent>>
    /\ UNCHANGED aside

\* faulty variant: a file that cannot be loaded is kept open as it is ("r+")
\* instead of being opened anew with "w+"
RestartKeepsFile ==
    \E loaded \in {Load(file)} :  \* json.load runs once
    LET st0 == IF loaded.ok THEN loaded.val ELSE <<>>
    IN  /\ groups' = IF loaded.ok THEN RebuildGroups(st0) ELSE <<>>
        /\ status' = ReapStatus(st0, alive)
        /\ fifos' = ReapFifos(fifos, st0, alive)
        /\ file' = Save(file, status')
        /\ ctl' = "ready"
        /\ last' = Record("restart", "", 0, IF loaded.ok THEN "loaded" ELSE "empty", 0)
        /\ UNCHANGED <<alive, nextPid, everSent>>
        /\ UNCHANGED aside

\* The controller process ends and a new one runs __init__ in the same
\* directory: load the status file (or start empty, truncating it), rebuild
\* the classpath cache, then update_status().
Restart ==
    \E loaded \in {Load(file)} :  \* json.load runs once
    LET st0 == IF loaded.ok THEN loaded.val ELSE <<>>
        f0 == IF loaded.ok THEN file ELSE <<>>
    IN  /\ groups' = IF loaded.ok THEN RebuildGroups(st0) ELSE <<>>
        /\ status' = ReapStatus(st0, alive)
        /\ fifos' = ReapFifos(fifos, st0, alive)
        /\ file' = Save(f0, status')
        /\ ctl' = "ready"
        /\ last' = Record("restart", "", 0, IF loaded.ok THEN "loaded" ELSE "empty", 0)
        /\ UNCHANGED <<alive, nextPid, everSent>>
        /\ UNCHANGED aside

\* a worker process ends (on its own, after its job, or killed)
Die(pid) ==
    /\ pid \in alive
    /\ alive' = alive \ {pid}
    /\ last' = Record("die", "", 0, "ok", 0)
    /\ UNCHANGED <<status, groups, file, fifos, nextPid, ctl, everSent>>
    /\ UNCHANGED aside

Next ==
    \/ \E g \in Groups, classpath \in ClasspathArgs, n \in 0..MaxInstances,
          failAt \in 0..MaxInstances : Ensure(g, classpath, n, failAt)
    \/ \E g \in Groups : DispatchNoGroup(g)
    \/ \E g \in Groups : DispatchNoIdle(g)
    \/ \E g \in Groups : Dispatch(g)
    \/ \E g \in Groups : DispatchBlocks(g)
    \/ Reconcile
    \/ Restart
    \/ \E pid \in 1..MaxPid : Die(pid)

Spec == Init /\ [][Next]_vars

(* ------------------------------ the claims ----------------------------- *)

\* the slots of the registry with their place: <<group, index>>
Places(st) ==
    UNION {{<<st[i].group, j>> : j \in DOMAIN st[i].processes} : i \in DOMAIN st}

SlotAt(st, pl) == Processes(st, pl[1])[pl[2]]

\* every group's slot list is the same in st1 and st2, and so is the group set
SameRegistry(st1, st2) ==
    \A g \in Groups :
        /\ HasGroup(st1, g) = HasGroup(st2, g)
        /\ Processes(st1, g) = Processes(st2, g)

\* C1: no two slots present in the Registry have the same unique_id.
C1_UniqueIdsDistinct ==
    \A p1, p2 \in Places(status) :
        p1 # p2 => SlotAt(status, p1).unique_id # SlotAt(status, p2).unique_id

\* C2: a channel named by a unique_id exists if and only if a slot with that
\* unique_id is present in the Registry.
C2_ChannelIffSlot ==
    {c.name : c \in fifos} = {MkFifoName(p.unique_id) : p \in AllSlots(status)}

\* C3: persist-then-reload round trip: when an operation has persisted the
\* Registry and every registered process exists, constructing a new Registry
\* from the file yields the same groups, the same slot order and the same
\* field values.
C3_RoundTrip ==
    [][(/\ last'.op = "restart"
        /\ last.op \in {"ensure", "dispatch", "reconcile", "restart"}
        /\ last.result \in {"ok", "loaded", "empty"}
        /\ \A p \in AllSlots(status) : p.pid \in alive)
       => SameRegistry(status', status)]_vars

\* C4: when ensure, dispatch or reconcile returns (also with an error), the
\* slots registered in memory are exactly the slots the persisted file records.
C4_PersistedOnReturn ==
    (last.op \in {"ensure", "dispatch", "reconcile"} /\ last.result # "blocked")
        => /\ Load(file).ok
           /\ \A g \in Groups : Processes(Load(file).val, g) = Processes(status, g)

Max(x, y) == IF x > y THEN x ELSE y

C7_DispatchFirstIdle ==
    [][(last'.op = "dispatch" /\ last'.result = "ok") =>
        LET g == last'.group
            old == Processes(status, g)
            new == Processes(status', g)
        IN  /\ \E j \in DOMAIN old :
                   /\ old[j].status = STATUS_IDLE
                   /\ \A k \in 1..(j - 1) : old[k].status = STATUS_COMMAND_SENT
                   /\ last'.pid = old[j].pid
                   /\ new = [old EXCEPT ![j].status = STATUS_COMMAND_SENT]
            /\ \A h \in Groups \ {g} : Processes(status', h) = Processes(status, h)
      ]_vars

\* C7 witness: a dispatch returned the pid of the second slot, the first
\* being CommandSent already, and a later Idle slot was left alone
C7_Witness ==
    /\ last.op = "dispatch" /\ last.result = "ok"
    /\ LET ps == Processes(status, last.group)
       IN  /\ Len(ps) = 3
           /\ ps[1].status = STATUS_COMMAND_SENT
           /\ ps[2].status = STATUS_COMMAND_SENT /\ ps[2].pid = last.pid
           /\ ps[3].status = STATUS_IDLE

\* C8: a slot a job was dispatched to is never Idle again: in every later
\* state, restarts included, it is CommandSent or no longer in the Registry.
C8_NeverIdleAgain ==
    \A p \in AllSlots(status) : p.pid \in everSent => p.status = STATUS_COMMAND_SENT

\* C8 witness: a CommandSent slot has come through a reload from the file
C8_Witness ==
    /\ last.op = "restart" /\ last.result = "loaded"
    /\ \E p \in AllSlots(status) : p.pid \in everSent /\ p.status = STATUS_COMMAND_SENT

\* C9: channels are private and one-shot: no two slots of the Registry name
\* the same channel, a channel some slot names has been written by at most one
\* dispatch, and that write went to the channel made for the selected slot.
C9_PrivateOneShotChannel ==
    /\ \A p1, p2 \in Places(status) :
           p1 # p2 => SlotAt(status, p1).control # SlotAt(status, p2).control
    /\ \A c \in fifos :
           (\E p \in AllSlots(status) : p.control = c.name) =>
               /\ Len(c.writes) <= 1
               /\ \A w \in DOMAIN c.writes : c.writes[w] = c.owner

\* C10: a reconcile right after a reconcile, with no step in between, leaves
\* the Registry and the bytes of the file as the first one left them.
C10_ReconcileIdempotent ==
    [][(last'.op = "reconcile" /\ last'.n = 1) => (status' = status /\ file' = file)]_vars

\* C10 witness: the second of two reconciles has run where the first had
\* removed slots, so that the file is longer than the serialized Registry
C10_Witness ==
    /\ last.op = "reconcile" /\ last.n = 1
    /\ Len(file) > Len(Dump(status))
    /\ AllSlots(status) # {}

\* C11: after every save the file holds exactly one serialized Registry, the
\* one in memory, with nothing after it, so that a loader parses it.
C11_FileIsTheRegistry ==
    (\/ last.op \in {"reconcile", "restart"}
     \/ (last.op \in {"ensure", "dispatch"} /\ last.result = "ok"))
        => (file = Dump(status) /\ Load(file).ok /\ Load(file).val = status)

\* C12: dispatch(g) fails with GroupNotFound exactly when g has no slot at all
\* (no entry, or an empty list) and with NoIdleWorker exactly when g has a slot
\* and every slot of g is CommandSent; a failed dispatch changes no slot and
\* writes to no channel.
C12_DispatchErrors ==
    [][(last'.op = "dispatch" /\ last'.result \in {"ok", "NoGroup", "NoIdle"}) =>
        LET ps == Processes(status, last'.group) IN
        /\ (last'.result = "NoGroup") <=> (ps = <<>>)
        /\ (last'.result = "NoIdle") <=>
               (ps # <<>> /\ \A j \in DOMAIN ps : ps[j].status = STATUS_COMMAND_SENT)
        /\ (last'.result # "ok") => (status' = status /\ fifos' = fifos /\ file' = file)
      ]_vars

\* C13: when a spawn inside ensure(g, ...) finds its process exited, the call
\* fails, that spawn adds no slot, no further process is forked, and the slots
\* spawned earlier in the call stay in g's list, Idle, after the old ones.
C13_LaunchErrorKeepsEarlierSlots ==
    [][(last'.op = "ensure" /\ last'.result = "ChildProcessError") =>
        LET g == last'.group
            old == Processes(status, g)
            new == Processes(status', g)
            forked == nextPid' - nextPid
            deficit == last'.n - IdleCount(old)
        IN  /\ forked >= 1 /\ forked <= deficit
            /\ Len(new) = Len(old) + forked - 1
            /\ SubSeq(new, 1, Len(old)) = old
            /\ \A j \in (Len(old) + 1)..Len(new) :
                   /\ new[j].status = STATUS_IDLE
                   /\ new[j].pid = nextPid + (j - Len(old) - 1)
            /\ \A p \in AllSlots(status') : p.pid # nextPid' - 1
            /\ \A h \in Groups \ {g} : Processes(status', h) = Processes(status, h)
      ]_vars

\* C13 witness: an ensure for 2 instances failed at its second spawn: the
\* first one's slot is registered and Idle, the second process is not
C13_Witness ==
    /\ last.op = "ensure" /\ last.result = "ChildProcessError" /\ last.n = 2
    /\ LET ps == Processes(status, last.group)
       IN  /\ Len(ps) >= 1
           /\ ps[Len(ps)].pid = nextPid - 2
           /\ ps[Len(ps)].status = STATUS_IDLE
           /\ nextPid - 2 \in alive
    /\ \A p \in AllSlots(status) : p.pid # nextPid - 1

(* ------------------- the message exec_ hands to _writefifo ------------- *)

\* longest text of an exec_ argument followed, in characters
MaxField == 2
\* most program arguments of an exec_ call followed
MaxArgs == 2

\* the characters of the arguments: one that UTF-8 encodes in one byte and
\* one that it encodes in two
Chars == {"a", "U+00E9"}

\* str.encode('utf8') of one character, as its bytes; the separators, digits
\* and NUL of a message are one byte each
Utf8(c) == IF c = "U+00E9" THEN <<"0xC3", "0xA9">> ELSE <<c>>

RECURSIVE Encode(_)
\* str.encode('utf8')
Encode(line) ==
    IF line = <<>> THEN <<>> ELSE Utf8(Head(line)) \o Encode(Tail(line))

\* "\u0000"
NUL == "NUL"

RECURSIVE Join(_, _)
\* sep.join(parts)
Join(sep, parts) ==
    IF parts = <<>> THEN <<>>
    ELSE IF Len(parts) = 1 THEN parts[1]
    ELSE parts[1] \o <<sep>> \o Join(sep, Tail(parts))

\* "=".join((k, v)) for k, v in target_environment.items()
EnvPairs(env) == [k \in DOMAIN env |-> Join("=", env[k])]

\* data_lines of exec_
DataLines(j) ==
    << j.main_class,
       IF j.args # <<>> THEN Join(NUL, j.args) ELSE <<>>,
       IF j.system_properties # <<>> THEN Join(NUL, j.system_properties) ELSE <<>>,
       IF j.environment # <<>> THEN Join(NUL, EnvPairs(j.environment)) ELSE <<>> >>

\* "{}:{},".format(len(line), line).encode('utf8'): len counts characters
EncodedLine(line) == Encode(FormatInt(Len(line)) \o <<":">> \o line \o <<",">>)

RECURSIVE WriteEach(_, _)
\* for line in lines: write(line), on a channel that holds `written`
WriteEach(written, lines) ==
    IF lines = <<>> THEN written
    ELSE WriteEach(written \o Head(lines), Tail(lines))

\* _writefifo on Linux: every element of `encoded` is written
WriteFifoLinux(data) ==
    WriteEach(<<>>, [k \in DOMAIN data |-> EncodedLine(data[k])])

\* _writefifo on Windows: the loop runs over `data`, not over `encoded`, and
\* hands each str to WriteFile as it is; a pywin32 build that takes a str
\* writes its bytes (UTF-8 is taken here), one that wants a bytes-like
\* object raises TypeError at the first call
WriteFifoWindows(data) ==
    WriteEach(<<>>, [k \in DOMAIN data |-> Encode(data[k])])

Texts == UNION {[1..k -> Chars] : k \in 0..MaxField}

Words == {<<>>, <<"a">>, <<"U+00E9">>}

Jobs ==
    [platform : {"linux", "win"},
     main_class : Texts,
     args : UNION {[1..k -> Words] : k \in 0..MaxArgs},
     system_properties : {<<>>} \cup {<<w>> : w \in Words},
     environment : {<<>>} \cup {<< <<<<"k">>, w>> >> : w \in Words},
     done : {"no"}]

\* the arguments of one exec_ call, before its message is written
InitFrame ==
    /\ status = <<>>
    /\ groups = <<>>
    /\ file = Save(<<>>, <<>>)
    /\ fifos = {}
    /\ alive = {}
    /\ nextPid = 1
    /\ ctl = "ready"
    /\ everSent = {}
    /\ last = Record("init", "", 0, "ok", 0)
    /\ other = NoController
    /\ job \in Jobs
    /\ wire = <<>>

registry == <<status, groups, file, fifos, alive, nextPid, ctl, everSent, last, other>>

\* self._writefifo(process_info, data_lines), _is_linux
ExecWritesLinux ==
    /\ job.platform = "linux"
    /\ job.done = "no"
    /\ wire' = WriteFifoLinux(DataLines(job))
    /\ job' = [job EXCEPT !.done = "written"]
    /\ UNCHANGED registry

\* self._writefifo(process_info, data_lines), _is_win, WriteFile takes a str
ExecWritesWindows ==
    /\ job.platform = "win"
    /\ job.done = "no"
    /\ wire' = WriteFifoWindows(DataLines(job))
    /\ job' = [job EXCEPT !.done = "written"]
    /\ UNCHANGED registry

\* self._writefifo(process_info, data_lines), _is_win, WriteFile refuses a str
ExecWriteRaisesWindows ==
    /\ job.platform = "win"
    /\ job.done = "no"
    /\ job' = [job EXCEPT !.done = "raised"]
    /\ UNCHANGED <<registry, wire>>

NextFrame ==
    \/ ExecWritesLinux
    \/ ExecWritesWindows
    \/ ExecWriteRaisesWindows

SpecFrame == InitFrame /\ [][NextFrame]_vars

\* '<n>:<field>,' with n the number of UTF-8 bytes of the field
Frame(field) ==
    FormatInt(Len(Encode(field))) \o <<":">> \o Encode(field) \o <<",">>

\* C14: on either channel variant the bytes written for an exec_ call are the
\* four frames of main_class, the NUL-joined args, the NUL-joined system
\* properties and the NUL-joined key=value environment, in that order, each
\* '<n>:<field>,' with n the decimal number of UTF-8 bytes of the field
C14_WireIsFourFrames ==
    (job.platform # "none" /\ job.done = "written") =>
        LET data == DataLines(job) IN
        wire = Frame(data[1]) \o Frame(data[2]) \o Frame(data[3]) \o Frame(data[4])

(* ---------------- construction over whatever the directory holds ------- *)

\* what STATUS_FILE can hold when a controller is constructed: nothing (no
\* file, or an empty one), text that is not JSON, a JSON text cut short, a
\* JSON text followed by the rest of an older one, and an empty registry
StartFiles ==
    { <<>>,
      << <<"x">> >>,
      <<LBrace>>,
      <<LBrace, RBrace, RBrace>>,
      <<LBrace, RBrace>> }

\* a working directory before CJavaPrefork(".") is called in it
InitStart ==
    /\ status = <<>>
    /\ groups = <<>>
    /\ file \in StartFiles
    /\ fifos = {}
    /\ alive = {}
    /\ nextPid = 1
    /\ ctl = "down"
    /\ everSent = {}
    /\ last = Record("none", "", 0, "ok", 0)
    /\ other = NoController
    /\ job = NoJob
    /\ wire = <<>>

SpecStart == InitStart /\ [][Next]_vars

\* the slots a call prefork_jvm(g, None, n) leaves in a fresh Registry
FreshSlots(ps, g, first_pid) ==
    \A j \in DOMAIN ps :
        /\ ps[j].pid = first_pid + j - 1
        /\ ps[j].status = STATUS_IDLE
        /\ ps[j].unique_id = UniqueId(g, j - 1)
        /\ ps[j].control = MkFifoName(UniqueId(g, j - 1))
        /\ ps[j].classpath = ExtendedClasspath(<<>>, g, "")

C16_ReconcileRemovesExactlyTheDead ==
    [][(last'.op = "reconcile") =>
          /\ Len(status') = Len(status)
          /\ \A i \in DOMAIN status :
                /\ status'[i].group = status[i].group
                /\ status'[i].processes =
                       SelectSeq(status[i].processes, LAMBDA p : p.pid \in alive)
          /\ \A p \in AllSlots(status') : p.pid \in alive'
      ]_vars

\* a reconcile has left a group whose first slot went with its process while
\* the second one, made in the same call, stays, and a slot whose command was
\* sent stays too
C16_Witness ==
    /\ last.op = "reconcile"
    /\ \E g \in Groups :
          LET ps == Processes(status, g) IN
          /\ Len(ps) = 1
          /\ ps[1].unique_id = UniqueId(g, 1)
          /\ ps[1].pid \in alive
    /\ \E p \in AllSlots(status) : p.status = STATUS_COMMAND_SENT /\ p.pid \in alive

(* ------------------------ the controller on Windows -------------------- *)

\* _mkfifoname_windows
MkFifoNameWindows(unique_id) == <<"\\\\.\\pipe\\preforkj.control.">> \o unique_id

\* _unlinkfifo_windows: DisconnectNamedPipe on the handle kept for unique_id
\* (no handle: KeyError, passed over); the handle stays open and stays in
\* _control_handles, so the pipe instance goes on existing
UnlinkFifoWindows(fs, unique_id) ==
    {IF c.name = MkFifoNameWindows(unique_id) THEN [c EXCEPT !.owner = 0] ELSE c : c \in fs}

\* CreateNamedPipe with Max instances 1 fails while an instance of that name
\* is open
CreateNamedPipeRaises(fs, unique_id) == Exists(fs, MkFifoNameWindows(unique_id))

\* _mkfifo_windows, CreateNamedPipe having returned a handle: the instance
\* exists, no client is connected to it
MkFifoWindows(fs, unique_id) ==
    fs \cup {[name |-> MkFifoNameWindows(unique_id), kind |-> "pipe", owner |-> 0, writes |-> <<>>]}

\* _waitfifo, ConnectNamedPipe having returned 0: the worker is the client
WaitFifo(fs, unique_id, pid) ==
    {IF c.name = MkFifoNameWindows(unique_id) THEN [c EXCEPT !.owner = pid] ELSE c : c \in fs}

\* what can become of one spawn once its pipe is made: the JVM runs and
\* connects, it has exited when polled, ConnectNamedPipe returns non-zero
\* (as it also does for a client that connected before the call), or
\* ConnectNamedPipe never returns
SpawnOutcomes == {"connects", "exits", "refused", "hangs"}

\* _run_jvm with _is_win: disconnect an old pipe of that id, create the pipe
\* (may raise), Popen, poll; a running JVM's slot is appended and then
\* _waitfifo is called, which returns, raises IOError or does not return
RunJvmWindows(s, g, classpath, outcome) ==
    LET st1 == SetDefault(s.status, g)
        processes == Processes(st1, g)
        process_position == Len(processes)
        unique_id == UniqueId(g, process_position)
        pid == s.nextPid
        fs0 == UnlinkFifoWindows(s.fifos, unique_id)
        fs1 == MkFifoWindows(fs0, unique_id)
        process_info == [pid |-> pid,
                         status |-> STATUS_IDLE,
                         unique_id |-> unique_id,
                         control |-> MkFifoNameWindows(unique_id),
                         commandline |-> CommandLine(classpath, unique_id),
                         classpath |-> classpath]
        st2 == SetProcesses(st1, g, Append(processes, process_info))
    IN  IF CreateNamedPipeRaises(fs0, unique_id)
        THEN [s EXCEPT !.status = st1, !.fifos = fs0, !.error = "pywintypes.error"]
        ELSE IF outcome = "exits"
        THEN [s EXCEPT !.status = st1, !.fifos = fs1, !.nextPid = pid + 1,
                       !.error = "ChildProcessError"]
        ELSE IF outcome = "refused"
        THEN [s EXCEPT !.status = st2, !.fifos = fs1, !.alive = @ \cup {pid},
                       !.nextPid = pid + 1, !.error = "IOError"]
        ELSE IF outcome = "hangs"
        THEN [s EXCEPT !.status = st2, !.fifos = fs1, !.alive = @ \cup {pid},
                       !.nextPid = pid + 1, !.error = "blocked"]
        ELSE [s EXCEPT !.status = st2, !.fifos = WaitFifo(fs1, unique_id, pid),
                       !.alive = @ \cup {pid}, !.nextPid = pid + 1]

RECURSIVE SpawnLoopWindows(_, _, _, _, _, _)
\* while idle_count > 0: self._run_jvm(...); idle_count -= 1
\* failAt is the number of the spawn that does not connect (0: none), how is
\* what becomes of it
SpawnLoopWindows(s, g, classpath, idle_count, failAt, how) ==
    IF idle_count <= 0 \/ s.error # "" THEN s
    ELSE SpawnLoopWindows(
             RunJvmWindows(s, g, classpath, IF failAt = 1 THEN how ELSE "connects"),
             g, classpath, idle_count - 1, IF failAt > 0 THEN failAt - 1 ELSE 0, how)

RECURSIVE UnlinkEachWindows(_, _)
\* self._unlinkfifo(unique_id) for every slot to reap
UnlinkEachWindows(fs, to_reap) ==
    IF to_reap = <<>> THEN fs
    ELSE UnlinkEachWindows(UnlinkFifoWindows(fs, to_reap[1].unique_id), Tail(to_reap))

RECURSIVE ReapFifosWindows(_, _, _)
\* update_status lines 364-367 on the pipes
ReapFifosWindows(fs, st, live) ==
    IF st = <<>> THEN fs
    ELSE ReapFifosWindows(UnlinkEachWindows(fs, ToReap(st[1].processes, live)), Tail(st), live)

\* prefork_jvm(group_name, classpath, n_instances) with _is_win
EnsureWin(g, classpath, n_instances, failAt, how) ==
    LET extended_classpath == ExtendedClasspath(groups, g, classpath)
        idle_count == IdleDeficit(status, g, n_instances)
        attempts == IF failAt = 0 THEN (IF idle_count > 0 THEN idle_count ELSE 0) ELSE failAt
        s0 == [status |-> status, fifos |-> fifos, alive |-> alive,
               nextPid |-> nextPid, error |-> ""]
        s1 == SpawnLoopWindows(s0, g, extended_classpath, idle_count, failAt, how)
    IN  /\ ctl = "ready"
        /\ failAt <= idle_count
        /\ (failAt = 0) <=> (how = "connects")
        /\ nextPid + attempts - 1 <= MaxPid
        /\ groups' = (g :> extended_classpath) @@ groups
        /\ status' = s1.status
        /\ fifos' = s1.fifos
        /\ alive' = s1.alive
        /\ nextPid' = s1.nextPid
        /\ file' = IF s1.error = "" THEN Save(file, s1.status) ELSE file
        /\ ctl' = IF s1.error = "blocked" THEN "blocked" ELSE ctl
        /\ last' = Record("ensure", g, n_instances,
                          IF s1.error = "" THEN "ok" ELSE s1.error, 0)
        /\ UNCHANGED everSent
        /\ UNCHANGED aside

\* exec_(group, ...) with _is_win and an Idle slot whose handle is in
\* _control_handles, whose worker is connected, and a WriteFile that takes
\* the str
DispatchWin(g) ==
    /\ ctl = "ready"
    /\ HasGroup(status, g)
    /\ HasIdle(Processes(status, g))
    /\ LET processes == Processes(status, g)
           j == FirstIdle(processes)
           process_info == processes[j]
           st1 == SetProcesses(status, g,
                      [processes EXCEPT ![j].status = STATUS_COMMAND_SENT])
       IN  /\ Exists(fifos, process_info.control)
           /\ LET c == Channel(fifos, process_info.control) IN
              /\ c.owner \in alive
              /\ fifos' = (fifos \ {c}) \cup {[c EXCEPT !.writes = Append(@, process_info.pid)]}
           /\ status' = st1
           /\ file' = Save(file, st1)
           /\ everSent' = everSent \cup {process_info.pid}
           /\ last' = Record("dispatch", g, 0, "ok", process_info.pid)
    /\ UNCHANGED <<groups, alive, nextPid, ctl>>
    /\ UNCHANGED aside

\* exec_(group, ...) with _is_win and an Idle slot, _writefifo raising: no
\* handle for the slot's unique_id (KeyError, as after a restart), no client
\* at the other end (pywintypes.error), or a WriteFile that refuses a str
\* (TypeError)
DispatchWinRaises(g) ==
    /\ ctl = "ready"
    /\ HasGroup(status, g)
    /\ HasIdle(Processes(status, g))
    /\ last' = Record("dispatch", g, 0, "raised", 0)
    /\ UNCHANGED <<status, groups, file, fifos, alive, nextPid, ctl, everSent>>
    /\ UNCHANGED aside

\* update_status() with _is_win
ReconcileWin ==
    /\ ctl = "ready"
    /\ status' = ReapStatus(status, alive)
    /\ fifos' = ReapFifosWindows(fifos, status, alive)
    /\ file' = Save(file, status')
    /\ last' = Record("reconcile", "", IF last.op = "reconcile" THEN 1 ELSE 0, "ok", 0)
    /\ UNCHANGED <<groups, alive, nextPid, ctl, everSent>>
    /\ UNCHANGED aside

\* The controller process ends, which closes its pipe handles, and a new one
\* runs __init__ in the same directory with _control_handles = {}
RestartWin ==
    \E loaded \in {Load(file)} :  \* json.load runs once
    LET st0 == IF loaded.ok THEN loaded.val ELSE <<>>
        f0 == IF loaded.ok THEN file ELSE <<>>
    IN  /\ groups' = IF loaded.ok THEN RebuildGroups(st0) ELSE <<>>
        /\ status' = ReapStatus(st0, alive)
        /\ fifos' = {}
        /\ file' = Save(f0, status')
        /\ ctl' = "ready"
        /\ last' = Record("restart", "", 0, IF loaded.ok THEN "loaded" ELSE "empty", 0)
        /\ UNCHANGED <<alive, nextPid, everSent>>
        /\ UNCHANGED aside

\* the groups used on Windows
GroupsWin == {"a"}

NextWin ==
    \/ \E g \in GroupsWin, classpath \in ClasspathArgs, n \in 0..MaxInstances,
          failAt \in 0..MaxInstances, how \in SpawnOutcomes :
              EnsureWin(g, classpath, n, failAt, how)
    \/ \E g \in GroupsWin : DispatchNoGroup(g)
    \/ \E g \in GroupsWin : DispatchNoIdle(g)
    \/ \E g \in GroupsWin : DispatchWin(g)
    \/ \E g \in GroupsWin : DispatchWinRaises(g)
    \/ ReconcileWin
    \/ RestartWin
    \/ \E pid \in 1..MaxPid : Die(pid)

SpecWin == Init /\ [][NextWin]_vars

\* C17: on the named-pipe transport a spawn appends its slot only after the
\* handshake has completed: when prefork_jvm ends in the handshake's failure,
\* or waits in it, the group's list is what it was before that spawn (the
\* old slots followed by the slots of the earlier spawns of the call), and
\* no slot is registered for the worker that did not connect
C17_HandshakeBeforeAppend ==
    [][(last'.op = "ensure" /\ last'.result \in {"IOError", "blocked"}) =>
          LET g == last'.group
              old == Processes(status, g)
              new == Processes(status', g)
              forked == nextPid' - nextPid
          IN  /\ Len(new) = Len(old) + forked - 1
              /\ SubSeq(new, 1, Len(old)) = old
              /\ \A p \in AllSlots(status') : p.pid # nextPid' - 1
      ]_vars

(* --------------------- ensure with an explicit classpath --------------- *)

\* the group and the classpath arguments used where prefork_jvm is called
\* with and without a classpath
GroupsCp == {"a"}

ClasspathsCp == {"", "/x.jar"}

NextCp ==
    \/ \E g \in GroupsCp, classpath \in ClasspathsCp, n \in 0..MaxInstances,
          failAt \in 0..MaxInstances : Ensure(g, classpath, n, failAt)
    \/ \E g \in GroupsCp : DispatchNoGroup(g)
    \/ \E g \in GroupsCp : DispatchNoIdle(g)
    \/ \E g \in GroupsCp : Dispatch(g)
    \/ \E g \in GroupsCp : DispatchBlocks(g)
    \/ Reconcile
    \/ Restart
    \/ \E pid \in 1..MaxPid : Die(pid)

SpecCp == Init /\ [][NextCp]_vars

\* C18: for every group that has a slot, the classpath kept for the group in
\* _groups (what prefork_jvm reuses when it is called without a classpath)
\* is the classpath field of the group's first slot; so it is after a
\* prefork_jvm with an explicit classpath on a group that has slots, and a
\* restart, which rebuilds it from the first slot, does not change it
C18_CacheIsFirstSlotClasspath ==
    \A i \in DOMAIN status :
        status[i].processes # <<>> =>
            /\ status[i].group \in DOMAIN groups
            /\ groups[status[i].group] = status[i].processes[1].classpath

(* ------------- two controllers in the same working directory ----------- *)

GroupsTwo == {"a"}

\* most worker processes started while two controllers are followed
MaxPidTwo == 2

\* most messages written to one channel while two controllers are followed
MaxWritesTwo == 2

\* A second CJavaPrefork(".") is constructed in another process while the
\* first one lives on: it runs __init__ over the same status file and the
\* same directory; nothing is locked.  The first controller's _status,
\* _groups and position are set aside, the new controller is the one running.
StartSecond ==
    \E loaded \in {Load(file)} :  \* json.load runs once
    LET st0 == IF loaded.ok THEN loaded.val ELSE <<>>
        f0 == IF loaded.ok THEN file ELSE <<>>
    IN  /\ ~other.started
        /\ other' = [started |-> TRUE, status |-> status, groups |-> groups, ctl |-> ctl]
        /\ groups' = IF loaded.ok THEN RebuildGroups(st0) ELSE <<>>
        /\ status' = ReapStatus(st0, alive)
        /\ fifos' = ReapFifos(fifos, st0, alive)
        /\ file' = Save(f0, status')
        /\ ctl' = "ready"
        /\ last' = Record("start", "", 0, IF loaded.ok THEN "loaded" ELSE "empty", 0)
        /\ UNCHANGED <<alive, nextPid, everSent, job, wire>>

\* the next operation is called on the other controller
Switch ==
    /\ other.started
    /\ other' = [started |-> TRUE, status |-> status, groups |-> groups, ctl |-> ctl]
    /\ status' = other.status
    /\ groups' = other.groups
    /\ ctl' = other.ctl
    /\ last' = Record("switch", "", 0, "ok", 0)
    /\ UNCHANGED <<file, fifos, alive, nextPid, everSent, job, wire>>

NextTwo ==
    \/ \E g \in GroupsTwo, classpath \in ClasspathArgs, n \in 0..MaxInstances,
          failAt \in 0..MaxInstances :
              Ensure(g, classpath, n, failAt) /\ nextPid' <= MaxPidTwo + 1
    \/ \E g \in GroupsTwo : DispatchNoGroup(g)
    \/ \E g \in GroupsTwo : DispatchNoIdle(g)
    \/ \E g \in GroupsTwo :
          Dispatch(g) /\ \A c \in fifos' : Len(c.writes) <= MaxWritesTwo
    \/ \E g \in GroupsTwo : DispatchBlocks(g)
    \/ Reconcile
    \/ Restart
    \/ \E pid \in 1..MaxPid : Die(pid)
    \/ StartSecond
    \/ Switch

SpecTwo == Init /\ [][NextTwo]_vars

\* the pids of the slots a loader finds in the status file
PersistedPids(f) ==
    IF Load(f).ok THEN {p.pid : p \in AllSlots(Load(f).val)} ELSE {}

\* C19: nothing locks the status file.  With one controller a slot found in
\* the file is never missing from it after an operation other than
\* update_status (called by the user or by __init__); with two controllers
\* on the same directory a slot one of them registered and persisted can be
\* missing from the file after the other one's save (C19_Witness)
C19_OnlyReconcileLosesSlots ==
    [][(~other.started /\ ~other'.started /\ PersistedPids(file) \ PersistedPids(file') # {})
          => last'.op \in {"reconcile", "restart"}
      ]_vars

\* lost update: a running worker's slot that the other controller has sent a
\* command to, and therefore saved, is not in the file that the running
\* controller has just written with a successful prefork_jvm or exec_
C19_Witness ==
    /\ other.started
    /\ last.op \in {"ensure", "dispatch"} /\ last.result = "ok"
    /\ Load(file).ok /\ Load(file).val = status
    /\ \E p \in AllSlots(other.status) :
          /\ p.status = STATUS_COMMAND_SENT
          /\ p.pid \in alive
          /\ p.pid \notin PersistedPids(file)

(* --------------------- exec_ whose channel write fails ----------------- *)

\* open(control, "wb") having returned, before anything is written: a
\* missing path has been created as a regular file, a regular file has been
\* truncated, a FIFO is as it was
OpenForWrite(fs, process_info) ==
    LET name == process_info.control IN
    IF Exists(fs, name) /\ Channel(fs, name).kind = "fifo" THEN fs
    ELSE {c \in fs : c.name # name} \cup
         {[name |-> name, kind |-> "file", owner |-> 0, writes |-> <<>>]}

\* faulty variant: the status is set and saved before the write is tried
DispatchRaisesAfterFlip(g) ==
    /\ ctl = "ready"
    /\ HasGroup(status, g)
    /\ HasIdle(Processes(status, g))
    /\ LET processes == Processes(status, g)
           j == FirstIdle(processes)
           process_info == processes[j]
           st1 == SetProcesses(status, g,
                      [processes EXCEPT ![j].status = STATUS_COMMAND_SENT])
       IN  /\ OpenCompletes(fifos, process_info.control, alive)
           /\ fifos' = OpenForWrite(fifos, process_info)
           /\ status' = st1
           /\ file' = Save(file, st1)
    /\ last' = Record("dispatch", g, 0, "raised", 0)
    /\ UNCHANGED <<groups, alive, nextPid, ctl, everSent>>
    /\ UNCHANGED aside

\* exec_(group, ...) with an Idle slot whose channel opens and whose write
\* raises (BrokenPipeError when the reader has closed its end, OSError from
\* the file system): the exception leaves exec_ at line 341
DispatchRaises(g) ==
    /\ ctl = "ready"
    /\ HasGroup(status, g)
    /\ HasIdle(Processes(status, g))
    /\ LET processes == Processes(status, g)
           process_info == processes[FirstIdle(processes)]
       IN  /\ OpenCompletes(fifos, process_info.control, alive)
           /\ fifos' = OpenForWrite(fifos, process_info)
    /\ last' = Record("dispatch", g, 0, "raised", 0)
    /\ UNCHANGED <<status, groups, file, alive, nextPid, ctl, everSent>>
    /\ UNCHANGED aside

NextIO ==
    \/ Next
    \/ \E g \in Groups : DispatchRaises(g)

SpecIO == Init /\ [][NextIO]_vars

\* C20: when the channel write inside exec_ raises, the Registry is as
\* before: the selected slot is still Idle, no other slot has changed and
\* the status file has not been written; a slot's status changes in an
\* exec_ only when the call returns, with the message written for that slot
C20_FailedWriteLeavesRegistry ==
    [][ /\ (last'.op = "dispatch" /\ last'.result = "raised") =>
              /\ status' = status
              /\ groups' = groups
              /\ file' = file
              /\ LET ps == Processes(status', last'.group)
                 IN  HasIdle(ps) /\ FirstIdle(ps) = FirstIdle(Processes(status, last'.group))
        /\ (last'.op = "dispatch" /\ status' # status) =>
              /\ last'.result = "ok"
              /\ \E c \in fifos' :
                    /\ c.writes # <<>>
                    /\ c.writes[Len(c.writes)] = last'.pid
      ]_vars

\* an exec_ has just failed in its write for a group whose first Idle slot
\* belongs to a running worker, after an earlier exec_ in the group
C20_Witness ==
    /\ last.op = "dispatch" /\ last.result = "raised"
    /\ LET ps == Processes(status, last.group) IN
          /\ HasIdle(ps)
          /\ ps[FirstIdle(ps)].pid \in alive
          /\ \E j \in DOMAIN ps : ps[j].status = STATUS_COMMAND_SENT

============================================================================
